---------------------------- MODULE Spec2Model ----------------------------
(***************************************************************************)
(* A model of the rendering pipeline of nova-ecs-render-canvas:            *)
(*   - StyleManager   (src/src/utils/BatchManager.ts, 383-640)             *)
(*   - BatchManager   (src/src/utils/BatchManager.ts, 37-361)              *)
(*   - CanvasRenderer (src/src/CanvasRenderer.ts, 35-642)                  *)
(* together with the part of the CanvasRenderingContext2D they drive: the  *)
(* drawing attributes, the save/restore stack and the calls issued.        *)
(*                                                                         *)
(* Every handler runs to completion (single threaded, synchronous), so a   *)
(* handler is one action.  The body of a handler is written as a function  *)
(* from a machine record (the mutable fields of the three objects and of   *)
(* the context) to a machine record; the action stores the result.         *)
(***************************************************************************)
EXTENDS Integers, Sequences, FiniteSets, TLC

VARIABLES
    \* ---- CanvasRenderingContext2D
    ctx,                    \* the current drawing state (attributes, transform, clip)
    ctxStack,               \* the drawing states pushed by save()
    \* ---- StyleManager
    currentStyle,           \* StyleCacheEntry: attribute -> <<>> (unset) or <<value>>
    styleChangeCount,
    enableCaching,
    \* ---- BatchManager
    batchCommands,
    maxBatchSize,
    batchingEnabled,
    batchedDrawCallCount,
    \* ---- CanvasRenderer
    transformStackDepth,
    canvasStats,
    enableBatchRendering,
    \* ---- CoordinateSystem
    coord,                  \* pixelsPerUnit, canvasSize, cameraPosition, cameraZoom
    \* ---- the caller and what it can observe
    conversion,             \* the conversion made last: its argument and its result
    inFrame,                \* the caller is between beginFrame and endFrame
    frameSaveDepth,         \* depth of the context's save stack when beginFrame was called
    lastOp,                 \* the public call that was made last, with its arguments
    calls,                  \* the callback and context calls that call issued, in order
    nextId,                 \* the next fresh payload a draw request will carry
    buffered,               \* payloads of the requests accepted into the pending buffer
    executed                \* payload -> number of times its geometry was replayed

vars == <<ctx, ctxStack, currentStyle, styleChangeCount, enableCaching,
          batchCommands, maxBatchSize, batchingEnabled, batchedDrawCallCount,
          transformStackDepth, canvasStats, enableBatchRendering,
          coord, conversion, inFrame, frameSaveDepth, lastOp, calls, nextId, buffered, executed>>

---------------------------------------------------------------------------
(* Bounds of the model *)

\* draw requests issued to a BatchManager over one behaviour
MaxCommands == 3
\* the small values of maxBatchSize tried beside the default
MaxSmallBatch == 3
\* a StyleManager counter that has reached this value is not driven further
MaxStyleChanges == 2
\* saved states the context may hold when a frame begins or a state is saved
MaxSaves == 1
\* draw calls of one frame
MaxDrawCalls == 1
\* pushTransform calls of one frame
MaxPushes == 1

\* the raw value of Fixed.ONE: a Fixed holds an integer count of 1/FixedScale
FixedScale == 8
\* the fixed-point steps a round trip may be off by: one for each operation of
\* the trip that rounds (the product, the Fixed made of a number, the quotient)
RoundTripTolerance == 3

\* DEFAULT_CANVAS_CONFIG.pixelsPerUnit and the CoordinateSystem's default
DefaultPixelsPerUnit == 100

\* DEFAULT_CANVAS_CONFIG.maxBatchSize and the constructor's default
DefaultMaxBatchSize == 1000

---------------------------------------------------------------------------
(* Values *)

Undefined == "undefined"

\* A style is a JavaScript object: its own properties in insertion order, each
\* a <<key, value>> pair.  A property may be present with the value undefined.
Prop(style, key) ==
    IF \E i \in 1..Len(style) : style[i][1] = key
    THEN style[CHOOSE i \in 1..Len(style) : style[i][1] = key][2]
    ELSE Undefined

\* `if (style.x)`: colours, Fixed values and non-empty strings are truthy
Truthy(v) == v # Undefined

\* LineStyle { color, thickness, dashPattern? }
LineStyles ==
    { << <<"color", "red">>,  <<"thickness", "1">> >>,
      << <<"color", "blue">>, <<"thickness", "2">>, <<"dashPattern", "5,5">> >> }

\* ShapeStyle { fillColor?, strokeColor?, strokeThickness?, dashPattern? }
StyleFill         == << <<"fillColor", "red">> >>
StyleFillBlue     == << <<"fillColor", "blue">> >>
StyleFillStroke   == << <<"fillColor", "red">>, <<"strokeColor", "blue">> >>
StyleStrokeFill   == << <<"strokeColor", "blue">>, <<"fillColor", "red">> >>
StyleFillNoStroke == << <<"fillColor", "red">>, <<"strokeColor", Undefined>> >>
StyleStroke       == << <<"strokeColor", "blue">>, <<"strokeThickness", "2">> >>

\* a thickness and a dash pattern without the stroke colour they belong to
StyleDashNoStroke ==
    << <<"fillColor", "blue">>, <<"strokeThickness", "2">>, <<"dashPattern", "5,5">> >>

ShapeStyles ==
    {StyleFill, StyleFillBlue, StyleFillStroke, StyleStrokeFill, StyleFillNoStroke, StyleStroke,
     StyleDashNoStroke}

\* TextStyle { color, fontSize, fontFamily?, fontWeight?, fontStyle?, textAlign?, textBaseline? }
TextPlain == << <<"color", "red">>, <<"fontSize", "12">> >>
TextBold ==
    << <<"color", "blue">>, <<"fontSize", "12">>, <<"fontWeight", "bold">>,
       <<"textAlign", "center">>, <<"textBaseline", "middle">> >>

TextStyles == {TextPlain, TextBold}

\* ColorUtils.toHex of @esengine/nova-ecs-render-core, on the colours used
toHex(color) ==
    CASE color = "red"   -> "#ff0000"
      [] color = "blue"  -> "#0000ff"
      [] color = "black" -> "#000000"
      [] OTHER           -> "#ffffff"

\* JSON.stringify(style): the own properties in insertion order, a property
\* whose value is undefined is left out
Stringify(style) == SelectSeq(style, LAMBDA kv : kv[2] # Undefined)

\* the content of a style: which property has which value, whatever the order
Content(style) == { style[i] : i \in {j \in 1..Len(style) : style[j][2] # Undefined} }

---------------------------------------------------------------------------
(* The raster context *)

\* the attributes of a fresh context (the defaults the test double also uses)
DefaultCtx ==
    [ strokeStyle |-> "#000000", fillStyle |-> "#000000", lineWidth |-> "1",
      font |-> "10px sans-serif", textAlign |-> "start", textBaseline |-> "alphabetic",
      globalAlpha |-> "1", globalCompositeOperation |-> "source-over",
      lineDash |-> "", transform |-> <<"center", "flipY">>, clip |-> FALSE ]

EmptyStyle ==
    [ strokeStyle |-> <<>>, fillStyle |-> <<>>, lineWidth |-> <<>>, font |-> <<>>,
      textAlign |-> <<>>, textBaseline |-> <<>>, globalAlpha |-> <<>>,
      globalCompositeOperation |-> <<>> ]

Attributes == DOMAIN EmptyStyle

NoStyle == <<>>

\* one entry of the list of calls an operation issued
Call(op, id, style, val) == [op |-> op, id |-> id, style |-> style, val |-> val]

\* The mutable fields a handler works on.
Machine ==
    [ ctx |-> ctx, ctxStack |-> ctxStack,
      currentStyle |-> currentStyle, styleChangeCount |-> styleChangeCount,
      batchCommands |-> batchCommands, batchingEnabled |-> batchingEnabled,
      batchedDrawCallCount |-> batchedDrawCallCount,
      transformStackDepth |-> transformStackDepth, canvasStats |-> canvasStats,
      calls |-> <<>>, buffered |-> buffered, executed |-> executed ]

Store(m) ==
    /\ ctx' = m.ctx
    /\ ctxStack' = m.ctxStack
    /\ currentStyle' = m.currentStyle
    /\ styleChangeCount' = m.styleChangeCount
    /\ batchCommands' = m.batchCommands
    /\ batchingEnabled' = m.batchingEnabled
    /\ batchedDrawCallCount' = m.batchedDrawCallCount
    /\ transformStackDepth' = m.transformStackDepth
    /\ canvasStats' = m.canvasStats
    /\ calls' = m.calls
    /\ buffered' = m.buffered
    /\ executed' = m.executed
    /\ UNCHANGED <<enableCaching, maxBatchSize, enableBatchRendering, coord, conversion>>

Log(m, op, id, style, val) == [m EXCEPT !.calls = Append(@, Call(op, id, style, val))]

\* a context method that changes no modelled attribute (path construction, painting)
CtxCall(m, op, id) == Log(m, op, id, NoStyle, "")

\* ctx.save()
CtxSave(m) == [Log(m, "save", 0, NoStyle, "") EXCEPT !.ctxStack = Append(@, m.ctx)]

\* ctx.restore(): pops the newest saved state; nothing to pop, nothing happens
CtxRestore(m) ==
    IF m.ctxStack = <<>>
    THEN Log(m, "restore", 0, NoStyle, "")
    ELSE [Log(m, "restore", 0, NoStyle, "") EXCEPT
            !.ctx = m.ctxStack[Len(m.ctxStack)],
            !.ctxStack = SubSeq(m.ctxStack, 1, Len(m.ctxStack) - 1)]

\* ctx.<attr> = val
CtxWrite(m, attr, val) ==
    [Log(m, "write", 0, NoStyle, attr) EXCEPT !.ctx = [m.ctx EXCEPT ![attr] = val]]

\* ctx.setLineDash(pattern)
CtxSetLineDash(m, pattern) ==
    [Log(m, "setLineDash", 0, NoStyle, pattern) EXCEPT !.ctx.lineDash = pattern]

\* ctx.translate / rotate / scale: composed onto the current transform
CtxTransform(m, t) ==
    [Log(m, "transform", 0, NoStyle, t) EXCEPT !.ctx.transform = Append(@, t)]

\* ctx.setTransform(1, 0, 0, 1, 0, 0)
CtxSetIdentity(m) ==
    [Log(m, "setTransform", 0, NoStyle, "identity") EXCEPT !.ctx.transform = <<>>]

\* ctx.fillRect(x, y, w, h): the entry keeps the transform and the rectangle in
\* its style field and the fill paint the call is made under in its val field
CtxFillRect(m, rect) ==
    Log(m, "fillRect", 0, <<m.ctx.transform, rect>>, m.ctx.fillStyle)

---------------------------------------------------------------------------
(* StyleManager *)

\* the body shared by the eight private setters:
\*   if (!this.enableCaching || this.currentStyle.<attr> !== value) {
\*     this.ctx.<attr> = value; this.currentStyle.<attr> = value; this.styleChangeCount++; }
\* a setter that writes whatever the cache holds
SetAttributeUncached(m, setter, attr, val) ==
    LET m1 == Log(m, setter, 0, NoStyle, val) IN
    [CtxWrite(m1, attr, val) EXCEPT
        !.currentStyle = [m1.currentStyle EXCEPT ![attr] = <<val>>],
        !.styleChangeCount = @ + 1]

SetAttribute(m, setter, attr, val) ==
    LET m1 == Log(m, setter, 0, NoStyle, val) IN
    IF ~enableCaching \/ m1.currentStyle[attr] # <<val>>
    THEN [CtxWrite(m1, attr, val) EXCEPT
            !.currentStyle = [m1.currentStyle EXCEPT ![attr] = <<val>>],
            !.styleChangeCount = @ + 1]
    ELSE m1

setStrokeStyle(m, val)   == SetAttribute(m, "setStrokeStyle", "strokeStyle", val)
setFillStyle(m, val)     == SetAttribute(m, "setFillStyle", "fillStyle", val)
setLineWidth(m, val)     == SetAttribute(m, "setLineWidth", "lineWidth", val)
setFont(m, val)          == SetAttribute(m, "setFont", "font", val)
setTextAlign(m, val)     == SetAttribute(m, "setTextAlign", "textAlign", val)
setTextBaseline(m, val)  == SetAttribute(m, "setTextBaseline", "textBaseline", val)
setGlobalAlpha(m, val)   == SetAttribute(m, "setGlobalAlpha", "globalAlpha", val)
setGlobalCompositeOperation(m, val) ==
    SetAttribute(m, "setGlobalCompositeOperation", "globalCompositeOperation", val)

\* the dash pattern is written straight to the context, never cached
ApplyDash(m, style) ==
    IF Truthy(Prop(style, "dashPattern"))
    THEN CtxSetLineDash(m, Prop(style, "dashPattern"))
    ELSE CtxSetLineDash(m, "")

applyLineStyle(m, style) ==
    LET m0 == Log(m, "applyLineStyle", 0, style, "")
        m1 == setStrokeStyle(m0, toHex(Prop(style, "color")))
        m2 == setLineWidth(m1, Prop(style, "thickness"))
    IN  ApplyDash(m2, style)

\* an applyShapeStyle that sets the line width and the dash pattern of a style
\* that has no stroke colour
applyShapeStyleWidthAlways(m, style) ==
    LET m0 == Log(m, "applyShapeStyle", 0, style, "")
        m1 == IF Truthy(Prop(style, "fillColor"))
              THEN setFillStyle(m0, toHex(Prop(style, "fillColor")))
              ELSE m0
        m2 == IF Truthy(Prop(style, "strokeColor"))
              THEN setStrokeStyle(m1, toHex(Prop(style, "strokeColor")))
              ELSE m1
        m3 == IF Truthy(Prop(style, "strokeThickness"))
              THEN setLineWidth(m2, Prop(style, "strokeThickness"))
              ELSE m2
    IN  ApplyDash(m3, style)

applyShapeStyle(m, style) ==
    LET m0 == Log(m, "applyShapeStyle", 0, style, "")
        m1 == IF Truthy(Prop(style, "fillColor"))
              THEN setFillStyle(m0, toHex(Prop(style, "fillColor")))
              ELSE m0
    IN  IF Truthy(Prop(style, "strokeColor"))
        THEN LET m2 == setStrokeStyle(m1, toHex(Prop(style, "strokeColor")))
                 m3 == IF Truthy(Prop(style, "strokeThickness"))
                       THEN setLineWidth(m2, Prop(style, "strokeThickness"))
                       ELSE m2
             IN  ApplyDash(m3, style)
        ELSE m1

\* `${fontStyle} ${fontWeight} ${fontSize}px ${fontFamily}` with the defaults
\* normal, normal and Arial
Or(v, default) == IF Truthy(v) THEN v ELSE default
FontString(style) ==
    Or(Prop(style, "fontStyle"), "normal") \o " " \o Or(Prop(style, "fontWeight"), "normal")
        \o " " \o Prop(style, "fontSize") \o "px " \o Or(Prop(style, "fontFamily"), "Arial")

applyTextStyle(m, style) ==
    LET m0 == Log(m, "applyTextStyle", 0, style, "")
        m1 == setFillStyle(m0, toHex(Prop(style, "color")))
        m2 == setFont(m1, FontString(style))
        m3 == IF Truthy(Prop(style, "textAlign"))
              THEN setTextAlign(m2, Prop(style, "textAlign"))
              ELSE m2
    IN  IF Truthy(Prop(style, "textBaseline"))
        THEN setTextBaseline(m3, Prop(style, "textBaseline"))
        ELSE m3

BlendModes == {"Normal", "Add", "Multiply"}

blendModeToCanvas(blendMode) ==
    CASE blendMode = "Normal"   -> "source-over"
      [] blendMode = "Add"      -> "lighter"
      [] blendMode = "Multiply" -> "multiply"
      [] blendMode = "Screen"   -> "screen"
      [] blendMode = "Overlay"  -> "overlay"
      [] blendMode = "Darken"   -> "darken"
      [] blendMode = "Lighten"  -> "lighten"
      [] OTHER                  -> "source-over"

applyBlendMode(m, blendMode) == setGlobalCompositeOperation(m, blendModeToCanvas(blendMode))

applyOpacity(m, opacity) == setGlobalAlpha(m, opacity)

saveState(m) == CtxSave(m)

\* a restoreState that counts the restore as a style change
restoreStateCounted(m) ==
    [CtxRestore(m) EXCEPT !.currentStyle = EmptyStyle, !.styleChangeCount = @ + 1]

restoreState(m) == [CtxRestore(m) EXCEPT !.currentStyle = EmptyStyle]

resetCache(m) == [m EXCEPT !.currentStyle = EmptyStyle]

resetStyleChangeCount(m) == [m EXCEPT !.styleChangeCount = 0]

---------------------------------------------------------------------------
(* CanvasRenderer: the immediate drawing methods.  They are also the        *)
(* callbacks setupBatchManager binds into the BatchManager.                 *)

drawLineImmediate(m, id, style) ==
    LET m1 == applyLineStyle(m, style)
        m2 == CtxCall(m1, "beginPath", id)
        m3 == CtxCall(m2, "moveTo", id)
        m4 == CtxCall(m3, "lineTo", id)
    IN  CtxCall(m4, "stroke", id)

\* the tail shared by circle, rect, polygon and ellipse, once the path is built
FillAndStroke(m, id, style) ==
    LET m1 == IF Truthy(Prop(style, "fillColor"))
              THEN CtxCall(applyShapeStyle(m, style), "fill", id)
              ELSE m
    IN  IF Truthy(Prop(style, "strokeColor"))
        THEN CtxCall(applyShapeStyle(m1, style), "stroke", id)
        ELSE m1

drawCircleImmediate(m, id, style) ==
    FillAndStroke(CtxCall(CtxCall(m, "beginPath", id), "arc", id), id, style)

drawRectImmediate(m, id, style) ==
    FillAndStroke(CtxCall(CtxCall(m, "beginPath", id), "rect", id), id, style)

\* the polygons of the model have three vertices
drawPolygonImmediate(m, id, style) ==
    LET m1 == CtxCall(m, "beginPath", id)
        m2 == CtxCall(m1, "moveTo", id)
        m3 == CtxCall(m2, "lineTo", id)
        m4 == CtxCall(m3, "lineTo", id)
    IN  FillAndStroke(CtxCall(m4, "closePath", id), id, style)

drawEllipseImmediate(m, id, style) ==
    FillAndStroke(CtxCall(CtxCall(m, "beginPath", id), "ellipse", id), id, style)

drawTextImmediate(m, id, style) ==
    LET m1 == CtxSave(m)
        m2 == CtxTransform(m1, "flipY")
        m3 == applyTextStyle(m2, style)
        m4 == CtxCall(m3, "fillText", id)
    IN  CtxRestore(m4)

\* drawTextureImmediate / drawTextureRegionImmediate with no TextureStyle
drawTextureImmediate(m, id) ==
    CtxRestore(CtxCall(CtxSave(m), "drawImage", id))

\* called without a style, as drawTextureImmediate is
drawTextureRegionImmediate(m, id) ==
    CtxRestore(CtxCall(CtxSave(m), "drawImage", id))

\* the immediate method of a batchable kind
Immediate(m, kind, id, style) ==
    CASE kind = "line"    -> drawLineImmediate(m, id, style)
      [] kind = "circle"  -> drawCircleImmediate(m, id, style)
      [] kind = "rect"    -> drawRectImmediate(m, id, style)
      [] kind = "polygon" -> drawPolygonImmediate(m, id, style)
      [] kind = "text"    -> drawTextImmediate(m, id, style)

---------------------------------------------------------------------------
(* BatchManager *)

Kinds == {"line", "circle", "rect", "polygon", "text"}

\* the styles a request of each kind is issued with
StylesOf(kind) ==
    CASE kind = "line"    -> LineStyles
      [] kind = "circle"  -> {StyleFill, StyleFillStroke, StyleStrokeFill}
      [] kind = "rect"    -> {StyleFillNoStroke}
      [] kind = "polygon" -> {StyleStroke}
      [] kind = "text"    -> {TextPlain}

CallbackName(kind) ==
    CASE kind = "line"    -> "drawLineImmediate"
      [] kind = "circle"  -> "drawCircleImmediate"
      [] kind = "rect"    -> "drawRectImmediate"
      [] kind = "polygon" -> "drawPolygonImmediate"
      [] kind = "text"    -> "drawTextImmediate"

\* The BatchManager replays the geometry of the request with payload id: it is
\* marked in the list of calls and counted for the payloads that are followed.
Replayed(m, kind, id, style) ==
    LET m1 == Log(m, "@replay", id, style, kind) IN
    IF id \in DOMAIN m.executed THEN [m1 EXCEPT !.executed[id] = @ + 1] ELSE m1

\* this.draw<Kind>Immediate(data, style): the callback the renderer has bound
Callback(m, kind, id, style) ==
    Immediate(Log(Replayed(m, kind, id, style), CallbackName(kind), id, style, ""),
              kind, id, style)

\* `${command.type}_${JSON.stringify(command.style)}`
getGroupKey(command) == <<command.type, Stringify(command.style)>>

\* one turn of the loop of groupCommands: the groups so far, then the command
\* a grouping that puts a group whose key is new before the groups already met
GroupStepNewestFirst(groups, command) ==
    LET key == getGroupKey(command) IN
    IF \E g \in 1..Len(groups) : groups[g].key = key
    THEN LET g == CHOOSE g \in 1..Len(groups) : groups[g].key = key
         IN  [groups EXCEPT ![g].commands = Append(@, command)]
    ELSE << [key |-> key, type |-> command.type, style |-> command.style,
             commands |-> <<command>>] >> \o groups

GroupStep(groups, command) ==
    LET key == getGroupKey(command) IN
    IF \E g \in 1..Len(groups) : groups[g].key = key
    THEN LET g == CHOOSE g \in 1..Len(groups) : groups[g].key = key
         IN  [groups EXCEPT ![g].commands = Append(@, command)]
    ELSE Append(groups, [key |-> key, type |-> command.type, style |-> command.style,
                         commands |-> <<command>>])

RECURSIVE GroupFrom(_, _)
GroupFrom(groups, commands) ==
    IF commands = <<>> THEN groups
    ELSE GroupFrom(GroupStep(groups, Head(commands)), Tail(commands))

groupCommands(commands) == GroupFrom(<<>>, commands)

\* the one element of a one-element set: Only({ F(x) : x \in {e} }) is F(e),
\* with e computed before F is begun, as a loop computes one turn before the next
Only(S) == CHOOSE x \in S : TRUE

\* the loop of executeLineGroup: one moveTo/lineTo pair per command
RECURSIVE LineSegments(_, _)
LineSegments(m, commands) ==
    IF commands = <<>> THEN m
    ELSE LET id == Head(commands).data
             m1 == CtxCall(Replayed(m, "line", id, Head(commands).style), "moveTo", id)
         IN  Only({ LineSegments(m2, Tail(commands)) : m2 \in {CtxCall(m1, "lineTo", id)} })

\* executeCircleGroup, executeRectGroup, executePolygonGroup, executeTextGroup:
\* the callback once per command, with the style of the group
RECURSIVE CallbackEach(_, _, _)
CallbackEach(m, group, commands) ==
    IF commands = <<>> THEN m
    ELSE Only({ CallbackEach(m1, group, Tail(commands)) :
                m1 \in {Callback(m, group.type, Head(commands).data, group.style)} })

\* a line group executed as the other kinds are: the callback once per command
executeLineGroupEach(m, group) == CallbackEach(m, group, group.commands)

executeLineGroup(m, group) ==
    LET m1 == applyLineStyle(m, group.style)
        m2 == CtxCall(m1, "beginPath", 0)
    IN  CtxCall(LineSegments(m2, group.commands), "stroke", 0)

executeGroup(m, group) ==
    IF group.type = "line"
    THEN executeLineGroup(m, group)
    ELSE CallbackEach(m, group, group.commands)

RECURSIVE ExecuteGroups(_, _)
ExecuteGroups(m, groups) ==
    IF groups = <<>> THEN m
    ELSE Only({ ExecuteGroups(m1, Tail(groups)) :
                m1 \in {executeGroup(Log(m, "@group", 0, Head(groups).style, Head(groups).type),
                                     Head(groups))} })

\* an execution that counts one batched draw call per command
executeBatchCountingCommands(m) ==
    IF Len(m.batchCommands) = 0 THEN m
    ELSE LET groups == groupCommands(m.batchCommands) IN
         [ExecuteGroups(m, groups) EXCEPT !.batchedDrawCallCount = @ + Len(m.batchCommands)]

executeBatch(m) ==
    IF Len(m.batchCommands) = 0 THEN m
    ELSE LET groups == groupCommands(m.batchCommands) IN
         [ExecuteGroups(m, groups) EXCEPT !.batchedDrawCallCount = @ + Len(groups)]

beginBatch(m) ==
    [m EXCEPT !.batchingEnabled = TRUE, !.batchCommands = <<>>, !.batchedDrawCallCount = 0]

\* an endBatch that executes the buffer and leaves the commands in it
endBatchKeepingBuffer(m) ==
    IF m.batchingEnabled
    THEN [executeBatch(m) EXCEPT !.batchingEnabled = FALSE]
    ELSE m

endBatch(m) ==
    IF m.batchingEnabled
    THEN [executeBatch(m) EXCEPT !.batchingEnabled = FALSE, !.batchCommands = <<>>]
    ELSE m

\* a flushBatch that also leaves the batch, as endBatch does
flushBatchLeavingBatch(m) ==
    IF Len(m.batchCommands) > 0
    THEN [executeBatch(m) EXCEPT !.batchCommands = <<>>]
    ELSE [m EXCEPT !.batchingEnabled = FALSE]

\* a flushBatch that ends the batch once it has executed the buffer
flushBatchEndingBatch(m) ==
    IF Len(m.batchCommands) > 0
    THEN [executeBatch(m) EXCEPT !.batchCommands = <<>>, !.batchingEnabled = FALSE]
    ELSE m

flushBatch(m) ==
    IF Len(m.batchCommands) > 0
    THEN [executeBatch(m) EXCEPT !.batchCommands = <<>>]
    ELSE m

\* an addCommand whose auto-flush also leaves the batch, as endBatch does
addCommandLeavingBatch(m, command) ==
    LET m1 == [m EXCEPT !.batchCommands = Append(@, command),
                        !.buffered = @ \cup {command.data}]
    IN  IF Len(m1.batchCommands) >= maxBatchSize
        THEN [flushBatch(m1) EXCEPT !.batchingEnabled = FALSE]
        ELSE m1

\* an addCommand that flushes only once the buffer has passed maxBatchSize
addCommandFlushingLate(m, command) ==
    LET m1 == [m EXCEPT !.batchCommands = Append(@, command),
                        !.buffered = @ \cup {command.data}]
    IN  IF Len(m1.batchCommands) > maxBatchSize THEN flushBatch(m1) ELSE m1

addCommand(m, command) ==
    LET m1 == [m EXCEPT !.batchCommands = Append(@, command),
                        !.buffered = @ \cup {command.data}]
    IN  IF Len(m1.batchCommands) >= maxBatchSize THEN flushBatch(m1) ELSE m1

\* addLine, addCircle, addRect, addPolygon, addText
\* an add* that buffers its command whether batching is enabled or not
addAlwaysBuffered(m, kind, id, style) ==
    addCommand(m, [type |-> kind, data |-> id, style |-> style])

add(m, kind, id, style) ==
    IF ~m.batchingEnabled
    THEN Callback(m, kind, id, style)
    ELSE addCommand(m, [type |-> kind, data |-> id, style |-> style])

getBatchedDrawCallCount(m) == m.batchedDrawCallCount

resetBatchedDrawCallCount(m) == [m EXCEPT !.batchedDrawCallCount = 0]

---------------------------------------------------------------------------
(* CanvasRenderer: the hooks behind the public calls.  BaseRenderer (of     *)
(* @esengine/nova-ecs-render-core) forwards beginFrame, endFrame, clear,    *)
(* draw*, setRenderState to the on* hooks and pushTransform to              *)
(* applyTransform; its own bookkeeping touches no field modelled here.      *)

\* the canvas of the renderer: width and height of the backing surface
CanvasWidth == 800
CanvasHeight == 600

ZeroStats ==
    [ drawCalls |-> 0, batchedDrawCalls |-> 0, styleChanges |-> 0, transformChanges |-> 0,
      textureBinds |-> 0, pixelsDrawn |-> 0, frameTime |-> 0 ]

\* a reset of the renderer's statistics that leaves the managers' counters
resetCanvasStatsOnly(m) == [m EXCEPT !.canvasStats = ZeroStats]

resetCanvasStats(m) ==
    resetBatchedDrawCallCount(resetStyleChangeCount([m EXCEPT !.canvasStats = ZeroStats]))

updateStatistics(m) ==
    [m EXCEPT !.canvasStats.styleChanges = m.styleChangeCount,
              !.canvasStats.batchedDrawCalls = getBatchedDrawCallCount(m),
              !.canvasStats.pixelsDrawn = CanvasWidth * CanvasHeight]

onBeginFrame(m) ==
    resetCanvasStats([CtxSave(m) EXCEPT !.transformStackDepth = 0])

\* a popTransform without the guard on the depth
popTransformUnguarded(m) ==
    [CtxRestore(m) EXCEPT !.transformStackDepth = @ - 1]

\* a popTransform that restores the context and keeps the depth
popTransformKeepingDepth(m) ==
    IF m.transformStackDepth > 0
    THEN CtxRestore(m)
    ELSE m

popTransform(m) ==
    IF m.transformStackDepth > 0
    THEN [CtxRestore(m) EXCEPT !.transformStackDepth = @ - 1]
    ELSE m

\* while (this.transformStackDepth > 0) this.popTransform();
\* fuel is the number of turns after which the loop has not ended on its own
RECURSIVE UnwindLoop(_, _)
UnwindLoop(m, fuel) ==
    IF m.transformStackDepth > 0 /\ fuel > 0
    THEN UnwindLoop(popTransform(m), fuel - 1)
    ELSE m

\* the loop is left only with depth 0; a result with a positive depth stands
\* for a call that is still turning in the loop
onEndFrame(m) ==
    LET m1 == flushBatch(m)
        m2 == UnwindLoop(m1, m1.transformStackDepth + 1)
    IN  IF m2.transformStackDepth > 0 THEN m2
        ELSE updateStatistics(CtxRestore(m2))

\* a clear that fills under the transform in force
onClearUnderCurrentTransform(m, color) ==
    LET m1 == CtxSave(m)
        m3 == CtxWrite(m1, "fillStyle", toHex(color))
        m4 == CtxFillRect(m3, <<0, 0, CanvasWidth, CanvasHeight>>)
    IN  CtxRestore(m4)

onClear(m, color) ==
    LET m1 == CtxSave(m)
        m2 == CtxSetIdentity(m1)
        m3 == CtxWrite(m2, "fillStyle", toHex(color))
        m4 == CtxFillRect(m3, <<0, 0, CanvasWidth, CanvasHeight>>)
    IN  CtxRestore(m4)

Transforms == {"T1"}

applyTransform(m, t) ==
    LET m1 == [CtxSave(m) EXCEPT !.transformStackDepth = @ + 1,
                                 !.canvasStats.transformChanges = @ + 1]
        m2 == CtxTransform(m1, "translate " \o t)
        m3 == CtxTransform(m2, "rotate " \o t)
    IN  CtxTransform(m3, "scale " \o t)

\* a draw request that is not counted
CountDrawNot(m) == m

CountDraw(m) == [m EXCEPT !.canvasStats.drawCalls = @ + 1]

\* onDrawLine, onDrawCircle, onDrawRect, onDrawPolygon, onDrawText
onDraw(m, kind, id, style) ==
    CountDraw(IF enableBatchRendering
              THEN add(m, kind, id, style)
              ELSE Immediate(m, kind, id, style))

onDrawEllipse(m, id, style) == CountDraw(drawEllipseImmediate(m, id, style))

\* onDrawTexture / onDrawTextureRegion; isCanvasTexture: texture instanceof CanvasTexture
\* an onDrawTexture that draws whatever the texture is
onDrawTextureUnchecked(m, id, isCanvasTexture) ==
    [CountDraw(drawTextureImmediate(m, id)) EXCEPT !.canvasStats.textureBinds = @ + 1]

onDrawTexture(m, id, isCanvasTexture) ==
    IF ~isCanvasTexture
    THEN Log(m, "warn", id, NoStyle, "Invalid texture type for Canvas renderer")
    ELSE [CountDraw(drawTextureImmediate(m, id)) EXCEPT !.canvasStats.textureBinds = @ + 1]

onDrawTextureRegion(m, id, isCanvasTexture) ==
    IF ~isCanvasTexture
    THEN Log(m, "warn", id, NoStyle, "Invalid texture type for Canvas renderer")
    ELSE [CountDraw(drawTextureRegionImmediate(m, id)) EXCEPT !.canvasStats.textureBinds = @ + 1]

applyClipRect(m) ==
    LET m1 == CtxSave(m)
        m2 == CtxCall(m1, "beginPath", 0)
        m3 == CtxCall(m2, "rect", 0)
    IN  [Log(m3, "clip", 0, NoStyle, "") EXCEPT !.ctx.clip = TRUE]

\* state: [blendMode, opacity, clipRect (present or not)]
onSetRenderState(m, state) ==
    LET m1 == applyOpacity(applyBlendMode(m, state.blendMode), state.opacity)
    IN  IF state.clipRect THEN applyClipRect(m1) ELSE m1

---------------------------------------------------------------------------
(* Fixed (of @esengine/nova-ecs-math): a fixed-point number, held here as   *)
(* its raw integer, the value times FixedScale.  Sums and differences are   *)
(* exact.  A product, a quotient and a conversion from a number have to be   *)
(* brought to a multiple of 1/FixedScale: the library's rounding is either   *)
(* neighbour of the exact result, and the result itself when it is a         *)
(* multiple.                                                                *)
(* A JavaScript number is held as an integer count of 1/NumberUnit; the      *)
(* numbers formed below are all multiples of it.                             *)

NumberUnit == 2 * FixedScale * FixedScale

\* the integers next to num / den, den # 0
Roundings(num, den) ==
    LET n == IF den < 0 THEN 0 - num ELSE num
        d == IF den < 0 THEN 0 - den ELSE den
        q == n \div d
    IN  IF q * d = n THEN {q} ELSE {q, q + 1}

FixedMultiply(a, b) == Roundings(a * b, FixedScale)
FixedDivide(a, b) == Roundings(a * FixedScale, b)
\* new Fixed(n / m) for numbers n and m
FixedFromQuotient(n, m) == Roundings(n * FixedScale, m)
\* a.toNumber()
toNumber(a) == a * (NumberUnit \div FixedScale)
\* the number k, and the number k / 2, for an integer k
NumberOf(k) == k * NumberUnit
HalfOf(k) == k * (NumberUnit \div 2)
\* the product of two numbers
NumberTimes(n, m) == (n * m) \div NumberUnit

---------------------------------------------------------------------------
(* CoordinateSystem *)

\* the state the renderer's constructor gives it, high-DPI scaling off
DefaultCoord ==
    [ pixelsPerUnit  |-> DefaultPixelsPerUnit,
      canvasSize     |-> [width |-> CanvasWidth, height |-> CanvasHeight],
      cameraPosition |-> [x |-> 0, y |-> 0],
      cameraZoom     |-> FixedScale ]

setCanvasSize(c, size) == [c EXCEPT !.canvasSize = size]
setCameraPosition(c, position) == [c EXCEPT !.cameraPosition = position]
setCameraZoom(c, zoom) == [c EXCEPT !.cameraZoom = zoom]
setPixelsPerUnit(c, pixelsPerUnit) == [c EXCEPT !.pixelsPerUnit = pixelsPerUnit]

\* a worldToScreen that does not turn the Y axis
worldToScreenYDown(c, worldPos) ==
    LET relativeX == worldPos.x - c.cameraPosition.x
        relativeY == worldPos.y - c.cameraPosition.y
    IN  { [ x |-> toNumber(scaledX) * c.pixelsPerUnit + HalfOf(c.canvasSize.width),
            y |-> HalfOf(c.canvasSize.height) + toNumber(scaledY) * c.pixelsPerUnit ] :
          scaledX \in FixedMultiply(relativeX, c.cameraZoom),
          scaledY \in FixedMultiply(relativeY, c.cameraZoom) }

\* the screen points worldToScreen(worldPos) can return, one per rounding of
\* the two products with the zoom
worldToScreen(c, worldPos) ==
    LET relativeX == worldPos.x - c.cameraPosition.x
        relativeY == worldPos.y - c.cameraPosition.y
    IN  { [ x |-> toNumber(scaledX) * c.pixelsPerUnit + HalfOf(c.canvasSize.width),
            y |-> HalfOf(c.canvasSize.height) - toNumber(scaledY) * c.pixelsPerUnit ] :
          scaledX \in FixedMultiply(relativeX, c.cameraZoom),
          scaledY \in FixedMultiply(relativeY, c.cameraZoom) }

\* the world coordinate screenToWorld derives from one pixel offset
WorldFromPixels(c, pixel, camera) ==
    { q + camera :
        q \in UNION { FixedDivide(w, c.cameraZoom) :
                        w \in FixedFromQuotient(pixel, NumberOf(c.pixelsPerUnit)) } }

screenToWorld(c, screenPos) ==
    LET pixelX == screenPos.x - HalfOf(c.canvasSize.width)
        pixelY == HalfOf(c.canvasSize.height) - screenPos.y
    IN  { [x |-> worldX, y |-> worldY] :
          worldX \in WorldFromPixels(c, pixelX, c.cameraPosition.x),
          worldY \in WorldFromPixels(c, pixelY, c.cameraPosition.y) }

worldToScreenDistance(c, worldDistance) ==
    NumberTimes(toNumber(worldDistance) * c.pixelsPerUnit, toNumber(c.cameraZoom))

screenToWorldDistance(c, screenPixels) ==
    FixedFromQuotient(screenPixels, c.pixelsPerUnit * toNumber(c.cameraZoom))

\* where the context draws a point given to it: setupCoordinateSystem has put
\* translate(canvas.width / 2, canvas.height / 2) and scale(1, -1) on it
BaseTransform(point) ==
    [ x |-> HalfOf(CanvasWidth) + point.x,
      y |-> HalfOf(CanvasHeight) - point.y ]

\* the device positions at which drawCircleImmediate puts the centre of its arc
ArcCentre(c, center) == { BaseTransform(centerScreen) : centerScreen \in worldToScreen(c, center) }

---------------------------------------------------------------------------
(* The calls a caller makes *)

Op(op, kind, id, style, returned) ==
    [op |-> op, kind |-> kind, id |-> id, style |-> style, returned |-> returned]

\* a conversion and what it was given and returned; a distance is kept in x
Converted(op, arg, screen, back, device) ==
    [op |-> op, arg |-> arg, screen |-> screen, back |-> back, device |-> device]
NoPoint == [x |-> 0, y |-> 0]
NoConversion == Converted("none", NoPoint, NoPoint, NoPoint, NoPoint)

InitObjects ==
    /\ ctx = DefaultCtx
    /\ ctxStack = <<>>
    /\ currentStyle = EmptyStyle
    /\ styleChangeCount = 0
    /\ enableCaching \in BOOLEAN
    /\ batchCommands = <<>>
    /\ batchingEnabled = FALSE
    /\ batchedDrawCallCount = 0
    /\ transformStackDepth = 0
    /\ canvasStats = ZeroStats
    /\ coord = DefaultCoord
    /\ conversion = NoConversion
    /\ inFrame = FALSE
    /\ frameSaveDepth = 0
    /\ lastOp = Op("new", "", 0, NoStyle, TRUE)
    /\ calls = <<>>
    /\ nextId = 1
    /\ buffered = {}

\* ---- a StyleManager driven through its public methods ----

InitStyle ==
    /\ InitObjects
    /\ maxBatchSize = DefaultMaxBatchSize
    /\ enableBatchRendering = TRUE
    /\ executed = <<>>

StyleCall(op, style, m) ==
    /\ lastOp' = Op(op, "", 0, style, TRUE)
    /\ Store(m)
    /\ UNCHANGED <<inFrame, frameSaveDepth, nextId>>

ApplyLineStyle ==
    /\ styleChangeCount < MaxStyleChanges
    /\ \E style \in LineStyles :
          StyleCall("applyLineStyle", style, applyLineStyle(Machine, style))

ApplyShapeStyle ==
    /\ styleChangeCount < MaxStyleChanges
    /\ \E style \in ShapeStyles :
          StyleCall("applyShapeStyle", style, applyShapeStyle(Machine, style))

ApplyTextStyle ==
    /\ styleChangeCount < MaxStyleChanges
    /\ \E style \in TextStyles :
          StyleCall("applyTextStyle", style, applyTextStyle(Machine, style))

ApplyBlendMode ==
    /\ styleChangeCount < MaxStyleChanges
    /\ \E blendMode \in BlendModes :
          StyleCall("applyBlendMode", NoStyle, applyBlendMode(Machine, blendMode))

Opacities == {"1", "0.5"}

ApplyOpacity ==
    /\ styleChangeCount < MaxStyleChanges
    /\ \E opacity \in Opacities :
          StyleCall("applyOpacity", NoStyle, applyOpacity(Machine, opacity))

SaveState ==
    /\ Len(ctxStack) < MaxSaves
    /\ StyleCall("saveState", NoStyle, saveState(Machine))

RestoreState == StyleCall("restoreState", NoStyle, restoreState(Machine))

ResetCache == StyleCall("resetCache", NoStyle, resetCache(Machine))

ResetStyleChangeCount ==
    StyleCall("resetStyleChangeCount", NoStyle, resetStyleChangeCount(Machine))

NextStyle ==
    \/ ApplyLineStyle
    \/ ApplyShapeStyle
    \/ ApplyTextStyle
    \/ ApplyBlendMode
    \/ ApplyOpacity
    \/ SaveState
    \/ RestoreState
    \/ ResetCache

SpecStyle == InitStyle /\ [][NextStyle]_vars

\* ---- a StyleManager whose counter is reset now and then ----

NextCounter ==
    \/ ApplyLineStyle
    \/ ApplyOpacity
    \/ SaveState
    \/ RestoreState
    \/ ResetCache
    \/ ResetStyleChangeCount

SpecCounter == InitStyle /\ [][NextCounter]_vars

\* ---- a StyleManager given line styles and shape styles in turn ----

NextShape ==
    \/ ApplyLineStyle
    \/ ApplyShapeStyle
    \/ SaveState
    \/ ResetStyleChangeCount

SpecShape == InitStyle /\ [][NextShape]_vars

\* ---- a BatchManager driven through its public methods, with the ----
\* ---- callbacks the renderer binds                                ----

InitBatch ==
    /\ InitObjects
    /\ enableCaching
    /\ maxBatchSize \in (1..MaxSmallBatch) \cup {DefaultMaxBatchSize}
    /\ enableBatchRendering = TRUE
    /\ executed = [id \in 1..MaxCommands |-> 0]

BatchCall(op, m) ==
    /\ lastOp' = Op(op, "", 0, NoStyle, TRUE)
    /\ Store(m)
    /\ UNCHANGED <<inFrame, frameSaveDepth, nextId>>

BeginBatch == BatchCall("beginBatch", beginBatch(Machine))

EndBatch == BatchCall("endBatch", endBatch(Machine))

FlushBatch == BatchCall("flushBatch", flushBatch(Machine))

Add ==
    /\ nextId <= MaxCommands
    /\ \E kind \in Kinds : \E style \in StylesOf(kind) :
          /\ lastOp' = Op("add", kind, nextId, style, TRUE)
          /\ Store(add(Machine, kind, nextId, style))
          /\ nextId' = nextId + 1
          /\ UNCHANGED <<inFrame, frameSaveDepth>>

NextBatch ==
    \/ BeginBatch
    \/ EndBatch
    \/ FlushBatch
    \/ Add

SpecBatch == InitBatch /\ [][NextBatch]_vars

\* ---- a CanvasRenderer driven through its public methods ----

\* the renderer is built with DEFAULT_CANVAS_CONFIG.enableStyleCaching
Init ==
    /\ InitObjects
    /\ enableCaching
    /\ maxBatchSize = DefaultMaxBatchSize
    /\ enableBatchRendering \in BOOLEAN
    /\ executed = <<>>

RendererCall(op, kind, style, m) ==
    /\ lastOp' = Op(op, kind, 0, style, TRUE)
    /\ Store(m)
    /\ UNCHANGED <<inFrame, frameSaveDepth, nextId>>

BeginFrame ==
    /\ ~inFrame
    /\ Len(ctxStack) < MaxSaves
    /\ lastOp' = Op("beginFrame", "", 0, NoStyle, TRUE)
    /\ Store(onBeginFrame(Machine))
    /\ inFrame' = TRUE
    /\ frameSaveDepth' = Len(ctxStack)
    /\ UNCHANGED nextId

EndFrame ==
    /\ inFrame
    /\ LET m == onEndFrame(Machine) IN
          /\ lastOp' = Op("endFrame", "", 0, NoStyle, m.transformStackDepth = 0)
          /\ Store(m)
    /\ inFrame' = FALSE
    /\ UNCHANGED <<frameSaveDepth, nextId>>

ClearColors == {"red"}

Clear ==
    /\ inFrame
    /\ \E color \in ClearColors : RendererCall("clear", color, NoStyle, onClear(Machine, color))

PushTransform ==
    /\ inFrame
    /\ canvasStats.transformChanges < MaxPushes
    /\ \E t \in Transforms : RendererCall("pushTransform", "", NoStyle, applyTransform(Machine, t))

PopTransform ==
    /\ inFrame
    /\ RendererCall("popTransform", "", NoStyle, popTransform(Machine))

\* the styles the renderer is driven with
RendererStylesOf(kind) ==
    CASE kind = "line"    -> { << <<"color", "blue">>, <<"thickness", "2">> >> }
      [] kind = "circle"  -> {StyleFillStroke}
      [] kind = "rect"    -> {StyleFill}
      [] kind = "polygon" -> {StyleStroke}
      [] kind = "text"    -> {TextPlain}
      [] kind = "ellipse" -> {StyleFill}

Draw ==
    /\ inFrame
    /\ canvasStats.drawCalls < MaxDrawCalls
    /\ \E kind \in Kinds : \E style \in RendererStylesOf(kind) :
          RendererCall("draw", kind, style, onDraw(Machine, kind, 0, style))

DrawEllipse ==
    /\ inFrame
    /\ canvasStats.drawCalls < MaxDrawCalls
    /\ \E style \in RendererStylesOf("ellipse") :
          RendererCall("draw", "ellipse", style, onDrawEllipse(Machine, 0, style))

DrawTexture ==
    /\ inFrame
    /\ canvasStats.drawCalls < MaxDrawCalls
    /\ \E isCanvasTexture \in BOOLEAN :
          RendererCall("drawTexture", IF isCanvasTexture THEN "CanvasTexture" ELSE "other",
                       NoStyle, onDrawTexture(Machine, 0, isCanvasTexture))

DrawTextureRegion ==
    /\ inFrame
    /\ canvasStats.drawCalls < MaxDrawCalls
    /\ \E isCanvasTexture \in BOOLEAN :
          RendererCall("drawTextureRegion", IF isCanvasTexture THEN "CanvasTexture" ELSE "other",
                       NoStyle, onDrawTextureRegion(Machine, 0, isCanvasTexture))

RenderStates ==
    [blendMode : {"Add"}, opacity : {"0.5"}, clipRect : BOOLEAN]

SetRenderState ==
    /\ inFrame
    /\ styleChangeCount < MaxStyleChanges
    /\ \E state \in RenderStates :
          /\ state.clipRect => Len(ctxStack) <= MaxSaves
          /\ RendererCall("setRenderState", IF state.clipRect THEN "clip" ELSE "",
                          NoStyle, onSetRenderState(Machine, state))

Next ==
    \/ BeginFrame
    \/ EndFrame
    \/ Clear
    \/ PushTransform
    \/ PopTransform
    \/ Draw
    \/ DrawEllipse
    \/ DrawTexture
    \/ DrawTextureRegion
    \/ SetRenderState

Spec == Init /\ [][Next]_vars

\* ---- the interleaved-circles scenario on a BatchManager: beginBatch, ----
\* ---- N >= 2 circles whose styles alternate between two styles, endBatch ----

\* the two pairs of styles of distinct content the scenario alternates between
InterleavedStyles == {StyleFill, StyleFillBlue, StyleStroke, StyleFillNoStroke}

OtherStyle(style) ==
    CASE style = StyleFill         -> StyleFillBlue
      [] style = StyleFillBlue     -> StyleFill
      [] style = StyleStroke       -> StyleFillNoStroke
      [] style = StyleFillNoStroke -> StyleStroke

InitInterleave ==
    /\ InitObjects
    /\ maxBatchSize \in (1..MaxSmallBatch) \cup {DefaultMaxBatchSize}
    /\ enableBatchRendering = TRUE
    /\ executed = [id \in 1..MaxCommands |-> 0]

InterleaveStart ==
    /\ lastOp.op = "new"
    /\ BatchCall("beginBatch", beginBatch(Machine))

InterleaveCircle ==
    /\ lastOp.op \in {"beginBatch", "add"}
    /\ nextId <= MaxCommands
    /\ \E style \in InterleavedStyles :
          /\ lastOp.op = "add" => style = OtherStyle(lastOp.style)
          /\ lastOp' = Op("add", "circle", nextId, style, TRUE)
          /\ Store(add(Machine, "circle", nextId, style))
          /\ nextId' = nextId + 1
          /\ UNCHANGED <<inFrame, frameSaveDepth>>

InterleaveEnd ==
    /\ lastOp.op = "add"
    /\ nextId - 1 >= 2
    /\ BatchCall("endBatch", endBatch(Machine))

NextInterleave ==
    \/ InterleaveStart
    \/ InterleaveCircle
    \/ InterleaveEnd

SpecInterleave == InitInterleave /\ [][NextInterleave]_vars

---------------------------------------------------------------------------
(* What a step shows *)

CallbackNames == {CallbackName(kind) : kind \in Kinds}

\* the callback invocations among the calls of the last operation
IsCallback(c) == c.op \in CallbackNames
\* the payloads replayed by the last operation, in the order of their replay
IsReplay(c) == c.op = "@replay"
ReplayOrder(cs) == LET r == SelectSeq(cs, IsReplay) IN [i \in 1..Len(r) |-> r[i].id]
\* the groups the last operation executed
IsGroup(c) == c.op = "@group"
IsRestore(c) == c.op = "restore"
IsWrite(c) == c.op = "write"

\* In a step of SpecBatch: the request an add call issues, the buffer as it is
\* once the request is appended, and whether the step executes that buffer.
IsAdd == nextId' = nextId + 1
Request == [type |-> lastOp'.kind, data |-> nextId, style |-> lastOp'.style]
Pending == IF IsAdd THEN Append(batchCommands, Request) ELSE batchCommands
AutoFlush == IsAdd /\ batchingEnabled /\ Len(Pending) >= maxBatchSize
Executes ==
    /\ batchingEnabled
    /\ Pending # <<>>
    /\ \/ AutoFlush
       \/ ~IsAdd /\ lastOp'.op \in {"endBatch", "flushBatch"}

---------------------------------------------------------------------------
(* C1..C5: the BatchManager *)

\* C1: an add* call made while batching is disabled invokes the callback of its
\* kind exactly once, with the payload and style given, and leaves the buffer
\* empty; made while batching is enabled it appends exactly one command of its
\* kind carrying the style given and invokes no callback, unless the append
\* brings the buffer to maxBatchSize: then the buffer, the new command
\* included, is executed and emptied.
C1_AddDispatch ==
    [][ IsAdd =>
          /\ ~batchingEnabled =>
                /\ SelectSeq(calls', IsCallback)
                     = << Call(CallbackName(Request.type), Request.data, Request.style, "") >>
                /\ batchCommands' = <<>>
          /\ batchingEnabled /\ ~AutoFlush =>
                /\ batchCommands' = Append(batchCommands, Request)
                /\ Len(SelectSeq(calls', IsCallback)) = 0
                /\ calls' = <<>>
          /\ AutoFlush =>
                /\ batchCommands' = <<>>
                /\ executed'[Request.data] = 1
      ]_vars

\* a command was buffered without any callback after an earlier request was drawn
C1_Witness ==
    /\ lastOp.op = "add"
    /\ batchingEnabled
    /\ Len(batchCommands) >= 1
    /\ calls = <<>>
    /\ \E id \in DOMAIN executed : executed[id] = 1

\* C2: every request accepted into the pending buffer is either still pending
\* and not executed, or gone from the buffer and executed exactly once.
InBuffer(id) == \E i \in 1..Len(batchCommands) : batchCommands[i].data = id

C2_NoCommandLost ==
    \A id \in buffered :
        \/ InBuffer(id) /\ executed[id] = 0
        \/ ~InBuffer(id) /\ executed[id] = 1

\* C3: an execution of the pending buffer replays every pending command once;
\* groups come in the order in which their key first appears in the buffer, and
\* the commands of one group in the order of their arrival.
PosOf(id) == CHOOSE i \in 1..Len(Pending) : Pending[i].data = id
FirstWithKey(key) ==
    CHOOSE i \in 1..Len(Pending) :
        /\ getGroupKey(Pending[i]) = key
        /\ \A j \in 1..(i - 1) : getGroupKey(Pending[j]) # key

InGroupOrder(order) ==
    \A i, j \in 1..Len(order) :
        i < j =>
            LET a == PosOf(order[i])
                b == PosOf(order[j])
                fa == FirstWithKey(getGroupKey(Pending[a]))
                fb == FirstWithKey(getGroupKey(Pending[b]))
            IN  fa < fb \/ (fa = fb /\ a < b)

C3_GroupOrder ==
    [][ Executes =>
          LET order == ReplayOrder(calls') IN
          /\ Len(order) = Len(Pending)
          /\ {order[i] : i \in 1..Len(order)} = {Pending[i].data : i \in 1..Len(Pending)}
          /\ InGroupOrder(order)
      ]_vars

\* three buffered requests were executed in an order that is not their arrival order
C3_Witness ==
    /\ lastOp.op = "endBatch"
    /\ Len(ReplayOrder(calls)) = 3
    /\ \E i \in 1..2 : ReplayOrder(calls)[i] > ReplayOrder(calls)[i + 1]

\* C4: an execution of a non-empty pending buffer raises the batched-draw-call
\* count by the number of distinct (kind, style content) pairs in the buffer.
KindAndContent(commands) ==
    { <<commands[i].type, Content(commands[i].style)>> : i \in 1..Len(commands) }

C4_CountPerContent ==
    [][ Executes =>
          batchedDrawCallCount' = batchedDrawCallCount + Cardinality(KindAndContent(Pending))
      ]_vars

\* C5 as stated: whatever maxBatchSize is, the scenario ends with a count of 2.
C5_AnyBatchSize ==
    lastOp.op = "endBatch" => batchedDrawCallCount = 2

\* C5, amended: for every N >= 2 and every maxBatchSize >= N, the scenario
\* replays each of the N circles once, executes exactly two groups in total and
\* ends with a batched-draw-call count of 2; when maxBatchSize > N both groups
\* are executed by endBatch.
C5_Interleaved ==
    (lastOp.op = "endBatch" /\ maxBatchSize >= nextId - 1) =>
        /\ batchedDrawCallCount = 2
        /\ batchCommands = <<>>
        /\ \A id \in 1..(nextId - 1) : executed[id] = 1
        /\ maxBatchSize > nextId - 1 =>
              /\ Len(SelectSeq(calls, IsGroup)) = 2
              /\ Len(ReplayOrder(calls)) = nextId - 1

\* the scenario has ended with N = 3 circles, all executed by endBatch
C5_Witness ==
    /\ lastOp.op = "endBatch"
    /\ nextId - 1 >= 3
    /\ maxBatchSize >= nextId - 1
    /\ Len(SelectSeq(calls, IsGroup)) = 2
    /\ batchedDrawCallCount = 2

---------------------------------------------------------------------------
(* C6, C7: the StyleManager and its cache *)

Setters ==
    {"setStrokeStyle", "setFillStyle", "setLineWidth", "setFont", "setTextAlign",
     "setTextBaseline", "setGlobalAlpha", "setGlobalCompositeOperation"}

SetterAttribute(setter) ==
    CASE setter = "setStrokeStyle"               -> "strokeStyle"
      [] setter = "setFillStyle"                 -> "fillStyle"
      [] setter = "setLineWidth"                 -> "lineWidth"
      [] setter = "setFont"                      -> "font"
      [] setter = "setTextAlign"                 -> "textAlign"
      [] setter = "setTextBaseline"              -> "textBaseline"
      [] setter = "setGlobalAlpha"               -> "globalAlpha"
      [] setter = "setGlobalCompositeOperation"  -> "globalCompositeOperation"

\* the i-th call of an operation's trace is a context write of the attribute
WroteAt(cs, i, attr) == i <= Len(cs) /\ cs[i].op = "write" /\ cs[i].val = attr

\* C6: a setter run by a StyleManager call writes its attribute to the context
\* if and only if caching is disabled or the value differs from the cached
\* last-applied value of the attribute; a write leaves the value in the context
\* and in the cache, and a skipped write leaves the context's attribute as it was.
C6_WriteIffChanged ==
    [][ \A i \in 1..Len(calls') :
          calls'[i].op \in Setters =>
             LET attr  == SetterAttribute(calls'[i].op)
                 val   == calls'[i].val
                 wrote == WroteAt(calls', i + 1, attr)
             IN  /\ wrote <=> (~enableCaching \/ currentStyle[attr] # <<val>>)
                 /\ wrote => ctx'[attr] = val /\ currentStyle'[attr] = <<val>>
                 /\ ~wrote => ctx'[attr] = ctx[attr] /\ currentStyle'[attr] = currentStyle[attr]
      ]_vars

\* with caching on, one call ran a setter that wrote and a setter that did not
C6_Witness ==
    /\ enableCaching
    /\ \E i, j \in 1..Len(calls) :
          /\ calls[i].op \in Setters
          /\ calls[j].op \in Setters
          /\ WroteAt(calls, i + 1, SetterAttribute(calls[i].op))
          /\ ~WroteAt(calls, j + 1, SetterAttribute(calls[j].op))

\* C7: when the last thing a renderer call did to the context was to restore
\* its saved state, the style cache is empty afterwards.
C7_CacheEmptyAfterRestore ==
    (calls # <<>> /\ calls[Len(calls)].op = "restore") => currentStyle = EmptyStyle

---------------------------------------------------------------------------
(* C8..C10: the frame of the CanvasRenderer *)

\* C8: endFrame returns, its unwinding loop having ended, and leaves the
\* transform-stack depth at 0 whatever was pushed and popped in the frame.
C8_EndFrameUnwinds ==
    lastOp.op = "endFrame" => (lastOp.returned /\ transformStackDepth = 0)

\* endFrame has unwound a transform the caller pushed and did not pop
C8_Witness ==
    /\ lastOp.op = "endFrame"
    /\ Len(SelectSeq(calls, IsRestore)) >= 2
    /\ canvasStats.transformChanges >= 1
    /\ transformStackDepth = 0

\* C9: after endFrame the context's save stack is as deep as it was before the
\* matching beginFrame.
C9_FrameRestoresSnapshot ==
    lastOp.op = "endFrame" => Len(ctxStack) = frameSaveDepth

\* C10: each draw request (line, circle, rect, polygon, text, ellipse) raises
\* the draw-call counter by exactly 1 whether batch rendering is configured on
\* or off, and with batch rendering off the batched-draw-call count is 0.
C10_DrawCallsCounted ==
    [][ /\ lastOp'.op = "draw" => canvasStats'.drawCalls = canvasStats.drawCalls + 1
        /\ ~enableBatchRendering =>
              /\ batchedDrawCallCount = 0 /\ canvasStats.batchedDrawCalls = 0
              /\ batchedDrawCallCount' = 0 /\ canvasStats'.batchedDrawCalls = 0
      ]_vars

\* a draw request was counted with batch rendering configured on
C10_Witness ==
    /\ lastOp.op = "draw"
    /\ enableBatchRendering
    /\ canvasStats.drawCalls = 1
    /\ calls # <<>>

---------------------------------------------------------------------------
(* C11, C12: calls the renderer guards against *)

\* C11: the transform-stack depth is never negative, and a popTransform issued
\* at depth 0 restores nothing on the context and leaves the depth at 0.
C11_SurplusPopIsNoOp ==
    [][ /\ transformStackDepth >= 0
        /\ transformStackDepth' >= 0
        /\ (lastOp'.op = "popTransform" /\ transformStackDepth = 0) =>
              /\ transformStackDepth' = 0
              /\ Len(SelectSeq(calls', IsRestore)) = 0
              /\ ctxStack' = ctxStack
              /\ ctx' = ctx
      ]_vars

\* a pop was issued in a frame whose pushed transforms were all popped already
C11_Witness ==
    /\ lastOp.op = "popTransform"
    /\ inFrame
    /\ canvasStats.transformChanges >= 1
    /\ transformStackDepth = 0
    /\ calls = <<>>
    /\ ctxStack # <<>>

IsTextureCall(op) == op \in {"drawTexture", "drawTextureRegion"}
IsRasterCall(c) == c.op \in {"save", "drawImage", "restore"}

\* C12: drawTexture and drawTextureRegion given a texture that is not a
\* CanvasTexture issue no save, drawImage or restore, change no counter, return
\* normally and leave the whole state of the renderer as it was.
C12_ForeignTextureSkipped ==
    [][ (IsTextureCall(lastOp'.op) /\ lastOp'.kind = "other") =>
          /\ lastOp'.returned
          /\ Len(SelectSeq(calls', IsRasterCall)) = 0
          /\ canvasStats' = canvasStats
          /\ ctx' = ctx
          /\ ctxStack' = ctxStack
          /\ UNCHANGED <<currentStyle, styleChangeCount, batchCommands, batchingEnabled,
                         batchedDrawCallCount, transformStackDepth, inFrame>>
      ]_vars

\* a foreign texture region was skipped inside a frame: a warning and nothing
\* else, the counters still at 0
C12_Witness ==
    /\ lastOp.op = "drawTextureRegion"
    /\ lastOp.kind = "other"
    /\ Len(calls) = 1
    /\ calls[1].op = "warn"
    /\ canvasStats.drawCalls = 0
    /\ canvasStats.textureBinds = 0
    /\ inFrame

---------------------------------------------------------------------------
(* C13, C14: what a frame and a clear leave behind *)

\* C13: beginFrame leaves every statistic of the renderer and the counters of
\* the StyleManager and of the BatchManager at 0; endFrame leaves the
\* style-change statistic equal to the StyleManager's counter, the
\* batched-draw-call statistic equal to the BatchManager's counter and the
\* pixels drawn equal to canvas width times canvas height.
C13_FrameStatistics ==
    [][ /\ lastOp'.op = "beginFrame" =>
              /\ canvasStats' = ZeroStats
              /\ styleChangeCount' = 0
              /\ batchedDrawCallCount' = 0
        /\ lastOp'.op = "endFrame" =>
              /\ canvasStats'.styleChanges = styleChangeCount'
              /\ canvasStats'.batchedDrawCalls = batchedDrawCallCount'
              /\ canvasStats'.pixelsDrawn = CanvasWidth * CanvasHeight
      ]_vars

\* a frame in which a draw changed styles has ended
C13_Witness ==
    /\ lastOp.op = "endFrame"
    /\ canvasStats.drawCalls = 1
    /\ canvasStats.styleChanges >= 1
    /\ styleChangeCount >= 1
    /\ canvasStats.pixelsDrawn = 480000

IsFillRect(c) == c.op = "fillRect"
IdentityTransform == <<>>

\* C14: clear(color) fills the rectangle (0, 0, canvas.width, canvas.height)
\* once, under the identity transform and with the colour given, whatever
\* transforms are pushed; when it returns, the context's transform, fill paint
\* and save stack are what they were before the call.
C14_ClearFillsSurface ==
    [][ lastOp'.op = "clear" =>
          /\ SelectSeq(calls', IsFillRect)
               = << Call("fillRect", 0,
                         <<IdentityTransform, <<0, 0, CanvasWidth, CanvasHeight>> >>,
                         toHex(lastOp'.kind)) >>
          /\ ctx'.transform = ctx.transform
          /\ ctx'.fillStyle = ctx.fillStyle
          /\ ctxStack' = ctxStack
      ]_vars

\* a clear was made under a pushed transform and with a fill paint in force
\* that is not the clear colour
C14_Witness ==
    /\ lastOp.op = "clear"
    /\ transformStackDepth >= 1
    /\ Len(ctx.transform) > Len(DefaultCtx.transform)
    /\ ctx.fillStyle # toHex(lastOp.kind)
    /\ Len(SelectSeq(calls, IsFillRect)) = 1

---------------------------------------------------------------------------
(* A CoordinateSystem driven through its setters and conversions, and the   *)
(* renderer's circle drawn through it                                       *)

rendererVars ==
    <<ctx, ctxStack, currentStyle, styleChangeCount, enableCaching,
      batchCommands, maxBatchSize, batchingEnabled, batchedDrawCallCount,
      transformStackDepth, canvasStats, enableBatchRendering,
      inFrame, frameSaveDepth, lastOp, calls, nextId, buffered, executed>>

CameraPositions == { [x |-> 0, y |-> 0], [x |-> FixedScale, y |-> 0 - 3] }
CameraZooms == { FixedScale, 2 * FixedScale, FixedScale \div 2, 1 }
PixelsPerUnits == { DefaultPixelsPerUnit, 30 }
CanvasSizes == { [width |-> CanvasWidth, height |-> CanvasHeight], [width |-> 641, height |-> 480] }
WorldPoints ==
    { [x |-> 0, y |-> 0], [x |-> FixedScale, y |-> 0], [x |-> 0, y |-> FixedScale],
      [x |-> FixedScale \div 2, y |-> 0 - 5], [x |-> 3, y |-> 2 * FixedScale + 1] }
WorldDistances == { 0, 3, FixedScale, 2 * FixedScale + 1 }

InitCoord ==
    /\ InitObjects
    /\ maxBatchSize = DefaultMaxBatchSize
    /\ enableBatchRendering = TRUE
    /\ executed = <<>>

CoordSet(c) ==
    /\ coord' = c
    /\ conversion' = NoConversion
    /\ UNCHANGED rendererVars

SetCanvasSize == \E size \in CanvasSizes : CoordSet(setCanvasSize(coord, size))
SetCameraPosition == \E position \in CameraPositions : CoordSet(setCameraPosition(coord, position))
SetCameraZoom == \E zoom \in CameraZooms : CoordSet(setCameraZoom(coord, zoom))
SetPixelsPerUnit == \E ppu \in PixelsPerUnits : CoordSet(setPixelsPerUnit(coord, ppu))

Convert(result) ==
    /\ conversion' = result
    /\ UNCHANGED coord
    /\ UNCHANGED rendererVars

WorldToScreen ==
    \E worldPos \in WorldPoints : \E screen \in worldToScreen(coord, worldPos) :
        Convert(Converted("worldToScreen", worldPos, screen, NoPoint, NoPoint))

\* screenToWorld given the point worldToScreen has just returned
ScreenToWorld ==
    /\ conversion.op = "worldToScreen"
    /\ \E back \in screenToWorld(coord, conversion.screen) :
          Convert(Converted("screenToWorld", conversion.arg, conversion.screen, back, NoPoint))

WorldToScreenDistance ==
    \E d \in WorldDistances :
        Convert(Converted("worldToScreenDistance", [x |-> d, y |-> 0],
                          [x |-> worldToScreenDistance(coord, d), y |-> 0], NoPoint, NoPoint))

\* screenToWorldDistance given the pixels worldToScreenDistance has just returned
ScreenToWorldDistance ==
    /\ conversion.op = "worldToScreenDistance"
    /\ \E back \in screenToWorldDistance(coord, conversion.screen.x) :
          Convert(Converted("screenToWorldDistance", conversion.arg, conversion.screen,
                            [x |-> back, y |-> 0], NoPoint))

\* the arc of drawCircleImmediate, drawn by the renderer on its own canvas
DrawCircleAt ==
    /\ coord.canvasSize = DefaultCoord.canvasSize
    /\ \E center \in WorldPoints : \E centerScreen \in worldToScreen(coord, center) :
          Convert(Converted("drawCircle", center, centerScreen, NoPoint,
                            BaseTransform(centerScreen)))

NextCoord ==
    \/ SetCanvasSize
    \/ SetCameraPosition
    \/ SetCameraZoom
    \/ SetPixelsPerUnit
    \/ WorldToScreen
    \/ ScreenToWorld
    \/ WorldToScreenDistance
    \/ ScreenToWorldDistance
    \/ DrawCircleAt

SpecCoord == InitCoord /\ [][NextCoord]_vars

---------------------------------------------------------------------------
(* C15..C17: world and screen coordinates *)

Abs(i) == IF i < 0 THEN 0 - i ELSE i
DefaultCamera(c) == c.cameraPosition = [x |-> 0, y |-> 0] /\ c.cameraZoom = FixedScale
CanvasCentre == [x |-> HalfOf(CanvasWidth), y |-> HalfOf(CanvasHeight)]

\* C15: with the default camera, a circle drawn at world (0,0) has its centre
\* on the centre of the canvas, and of two circles drawn one after the other
\* the one with the larger world Y lands higher on the canvas (at a smaller
\* device y).
C15_OriginAtCentre ==
    [][ (conversion'.op = "drawCircle" /\ DefaultCamera(coord')) =>
          /\ conversion'.arg = [x |-> 0, y |-> 0] => conversion'.device = CanvasCentre
          /\ (conversion.op = "drawCircle" /\ coord' = coord
                /\ conversion'.arg.y > conversion.arg.y) =>
                conversion'.device.y < conversion.device.y
      ]_vars

C15_Witness ==
    /\ conversion.op = "drawCircle"
    /\ DefaultCamera(coord)
    /\ conversion.arg = [x |-> 0, y |-> FixedScale]
    /\ conversion.device = BaseTransform(conversion.screen)

\* the screen point of the exact formula, in the unit of NumberOf:
\* (W/2 + (p.x - cam.x) * zoom * ppu, H/2 - (p.y - cam.y) * zoom * ppu)
ExactScreen(c, p) ==
    [ x |-> HalfOf(c.canvasSize.width)
              + 2 * (p.x - c.cameraPosition.x) * c.cameraZoom * c.pixelsPerUnit,
      y |-> HalfOf(c.canvasSize.height)
              - 2 * (p.y - c.cameraPosition.y) * c.cameraZoom * c.pixelsPerUnit ]

\* the three documented points, under the default camera and 100 pixels per unit
DocumentedPoints(c, p, screen) ==
    LET W2 == HalfOf(c.canvasSize.width)
        H2 == HalfOf(c.canvasSize.height)
    IN  (DefaultCamera(c) /\ c.pixelsPerUnit = DefaultPixelsPerUnit) =>
          /\ p = [x |-> 0, y |-> 0] => screen = [x |-> W2, y |-> H2]
          /\ p = [x |-> FixedScale, y |-> 0] =>
               screen = [x |-> W2 + NumberOf(DefaultPixelsPerUnit), y |-> H2]
          /\ p = [x |-> 0, y |-> FixedScale] =>
               screen = [x |-> W2, y |-> H2 - NumberOf(DefaultPixelsPerUnit)]

\* the product (p - cam) * zoom is a fixed-point value
Representable(c, p) ==
    /\ ((p.x - c.cameraPosition.x) * c.cameraZoom) % FixedScale = 0
    /\ ((p.y - c.cameraPosition.y) * c.cameraZoom) % FixedScale = 0

\* C16 as the specification states it: worldToScreen returns the three
\* documented points and in general exactly (W/2 + (p.x - cam.x) * zoom * ppu,
\* H/2 - (p.y - cam.y) * zoom * ppu), and changes no state.
C16_ExactFormula ==
    [][ conversion'.op = "worldToScreen" =>
          /\ DocumentedPoints(coord', conversion'.arg, conversion'.screen)
          /\ conversion'.screen = ExactScreen(coord', conversion'.arg)
          /\ UNCHANGED coord
          /\ UNCHANGED rendererVars
      ]_vars

\* C16, amended: worldToScreen returns the three documented points; in general
\* it returns (W/2 + s.x * ppu, H/2 - s.y * ppu) for the fixed-point product
\* s = (p - cam) * zoom, which is the exact formula when that product is a
\* fixed-point value and otherwise less than ppu fixed-point steps away from
\* it on each axis; the call changes no state.
C16_RoundedFormula ==
    [][ conversion'.op = "worldToScreen" =>
          LET exact == ExactScreen(coord', conversion'.arg)
              step == toNumber(1) * coord'.pixelsPerUnit
          IN  /\ DocumentedPoints(coord', conversion'.arg, conversion'.screen)
              /\ Abs(conversion'.screen.x - exact.x) < step
              /\ Abs(conversion'.screen.y - exact.y) < step
              /\ Representable(coord', conversion'.arg) => conversion'.screen = exact
              /\ UNCHANGED coord
              /\ UNCHANGED rendererVars
      ]_vars

\* a rounded conversion: a moved, zoomed-out camera and a product that is not
\* a fixed-point value
C16_Witness ==
    /\ conversion.op = "worldToScreen"
    /\ ~DefaultCamera(coord)
    /\ coord.cameraPosition.y < 0
    /\ ~Representable(coord, conversion.arg)
    /\ conversion.screen # ExactScreen(coord, conversion.arg)

\* C17: screenToWorld(worldToScreen(p)) is p within the rounding tolerance on
\* each axis, and screenToWorldDistance(worldToScreenDistance(d)) is d within
\* the same tolerance, whatever the camera, the zoom, the pixels per unit and
\* the canvas size.
C17_RoundTrip ==
    /\ conversion.op = "screenToWorld" =>
          /\ Abs(conversion.back.x - conversion.arg.x) <= RoundTripTolerance
          /\ Abs(conversion.back.y - conversion.arg.y) <= RoundTripTolerance
    /\ conversion.op = "screenToWorldDistance" =>
          Abs(conversion.back.x - conversion.arg.x) <= RoundTripTolerance

---------------------------------------------------------------------------
(* A StyleManager that is given a line style and then the same one again,   *)
(* each time from an empty cache and a counter at zero                      *)

LineColors == {"red", "blue", "black"}
LineThicknesses == {"1", "2", "3"}

RepeatedLineStyles ==
    { << <<"color", c>>, <<"thickness", t>> >> : c \in LineColors, t \in LineThicknesses }
      \cup { << <<"color", c>>, <<"thickness", t>>, <<"dashPattern", "5,5">> >> :
             c \in LineColors, t \in LineThicknesses }

RepeatCall(op, kind, style, m) ==
    /\ lastOp' = Op(op, kind, 0, style, TRUE)
    /\ Store(m)
    /\ UNCHANGED <<inFrame, frameSaveDepth, nextId>>

LineFirst ==
    /\ lastOp.op \in {"new", "reset"}
    /\ \E style \in RepeatedLineStyles :
          RepeatCall("applyLineStyle", "first", style, applyLineStyle(Machine, style))

LineAgain ==
    /\ lastOp.op = "applyLineStyle"
    /\ lastOp.kind = "first"
    /\ RepeatCall("applyLineStyle", "again", lastOp.style,
                  applyLineStyle(Machine, lastOp.style))

\* resetCache() and resetStyleChangeCount(): the next style starts afresh
LineReset ==
    /\ lastOp.op = "applyLineStyle"
    /\ lastOp.kind = "again"
    /\ RepeatCall("reset", "", NoStyle, resetStyleChangeCount(resetCache(Machine)))

NextLineTwice ==
    \/ LineFirst
    \/ LineAgain
    \/ LineReset

SpecLineTwice == InitStyle /\ [][NextLineTwice]_vars

\* C18: from an empty cache and a counter at zero, the same line style applied
\* twice in a row leaves the style-change counter at 1 with caching enabled
\* and at 2 with caching disabled.
C18_OncePerApplication ==
    (lastOp.op = "applyLineStyle" /\ lastOp.kind = "again") =>
        styleChangeCount = IF enableCaching THEN 1 ELSE 2

---------------------------------------------------------------------------
(* C19, C20: flushing and leaving a batch *)

\* C19: flushBatch called while the buffer is empty, batching or not, changes
\* nothing: it applies no style and issues no raster call (it does nothing to
\* the context at all), the batched-draw-call count and the style-change
\* counter stay as they were, and so does the batching flag.
C19_EmptyFlushIsNoOp ==
    [][ (lastOp'.op = "flushBatch" /\ batchCommands = <<>>) =>
          /\ calls' = <<>>
          /\ UNCHANGED <<ctx, ctxStack, currentStyle, styleChangeCount>>
          /\ UNCHANGED <<batchedDrawCallCount, batchingEnabled, batchCommands>>
          /\ UNCHANGED <<executed, buffered>>
      ]_vars

\* an empty buffer was flushed in the middle of a batch that had already
\* drawn something
C19_Witness ==
    /\ lastOp.op = "flushBatch"
    /\ calls = <<>>
    /\ batchCommands = <<>>
    /\ batchingEnabled
    /\ batchedDrawCallCount > 0

\* the state an endBatch leaves, and the state an auto-flush leaves: the last
\* add was buffered and the buffer is empty
JustEnded == lastOp.op = "endBatch"
JustAutoFlushed == lastOp.op = "add" /\ lastOp.id \in buffered /\ batchCommands = <<>>

\* every command of the buffer has been executed
AllExecuted(commands, count) == \A i \in 1..Len(commands) : count[commands[i].data] >= 1

\* the add call of the step drew at once: its callback ran, outside any group,
\* and the request never entered the buffer
DrewImmediately ==
    /\ SelectSeq(calls', IsCallback)
         = << Call(CallbackName(Request.type), Request.data, Request.style, "") >>
    /\ Len(SelectSeq(calls', IsGroup)) = 0
    /\ Request.data \notin buffered'
    /\ batchCommands' = <<>>

\* C20 as the specification states it: an endBatch made while batching and an
\* auto-flush both execute every buffered command, empty the buffer and leave
\* the manager idle, and the add call that follows either one draws at once
\* instead of buffering.
C20_IdleAfterAnyFlush ==
    [][ /\ (batchingEnabled /\ (lastOp'.op = "endBatch" \/ AutoFlush)) =>
              /\ AllExecuted(Pending, executed')
              /\ batchCommands' = <<>>
              /\ ~batchingEnabled'
        /\ (IsAdd /\ (JustEnded \/ JustAutoFlushed)) => DrewImmediately
      ]_vars

\* C20, amended: an endBatch made while batching and an auto-flush both execute
\* every buffered command and empty the buffer; endBatch leaves the manager
\* idle, so that the add call that follows draws at once, while an auto-flush
\* leaves it batching, so that the add call that follows is buffered.
C20_IdleAfterEndBatchOnly ==
    [][ /\ (batchingEnabled /\ (lastOp'.op = "endBatch" \/ AutoFlush)) =>
              /\ AllExecuted(Pending, executed')
              /\ batchCommands' = <<>>
              /\ batchingEnabled' <=> AutoFlush
        /\ (IsAdd /\ JustEnded) => DrewImmediately
        /\ (IsAdd /\ JustAutoFlushed) =>
              /\ batchingEnabled
              /\ Request.data \in buffered'
              /\ ~AutoFlush => batchCommands' = << Request >> /\ calls' = <<>>
      ]_vars

\* after an auto-flush of two commands the next request sits alone in the
\* buffer, undrawn
C20_Witness ==
    /\ lastOp.op = "add"
    /\ maxBatchSize = 2
    /\ batchingEnabled
    /\ buffered = {1, 2, 3}
    /\ executed[1] = 1 /\ executed[2] = 1 /\ executed[3] = 0
    /\ Len(batchCommands) = 1
    /\ batchCommands[1].data = 3
    /\ calls = <<>>

---------------------------------------------------------------------------
(* C21..C24: executing the buffer *)

\* C21: flushBatch executes every pending command once more and leaves the
\* buffer empty, and the batching flag after it is the flag before it.
C21_FlushKeepsFlag ==
    [][ lastOp'.op = "flushBatch" =>
          /\ batchingEnabled' = batchingEnabled
          /\ batchCommands' = <<>>
          /\ \A i \in 1..Len(batchCommands) :
                executed'[batchCommands[i].data] = executed[batchCommands[i].data] + 1
      ]_vars

\* a flushBatch has executed two buffered commands and the manager is still batching
C21_Witness ==
    /\ lastOp.op = "flushBatch"
    /\ Len(SelectSeq(calls, IsReplay)) = 2
    /\ batchCommands = <<>>
    /\ batchingEnabled

\* the StyleManager's apply operations, as they appear among the calls
ApplyNames == {"applyLineStyle", "applyShapeStyle", "applyTextStyle"}

\* the last call made for the group that begins at position g
GroupEnd(cs, g) ==
    IF \E j \in (g + 1)..Len(cs) : IsGroup(cs[j])
    THEN (CHOOSE j \in (g + 1)..Len(cs) :
             IsGroup(cs[j]) /\ \A k \in (g + 1)..(j - 1) : ~IsGroup(cs[k])) - 1
    ELSE Len(cs)

\* C22: for every group executed, of whatever kind and size, the StyleManager's
\* apply operation is invoked exactly once, and before any command of the
\* group is replayed.
C22_StyleOncePerGroup ==
    \A g \in 1..Len(calls) :
        IsGroup(calls[g]) =>
            LET applies == { i \in (g + 1)..GroupEnd(calls, g) : calls[i].op \in ApplyNames }
            IN  /\ Cardinality(applies) = 1
                /\ \A i \in (g + 1)..GroupEnd(calls, g) :
                      IsReplay(calls[i]) => \A a \in applies : a < i

\* the style application and the path calls among the calls of a line group
IsPathStep(c) == c.op \in {"applyLineStyle", "beginPath", "moveTo", "lineTo", "stroke"}
PathSteps(cs, g) == SelectSeq(SubSeq(cs, g + 1, GroupEnd(cs, g)), IsPathStep)
ReplaysIn(cs, g) == Len(SelectSeq(SubSeq(cs, g + 1, GroupEnd(cs, g)), IsReplay))

\* C23: a line group of k commands is executed as: its line style applied
\* once, then one beginPath, then one moveTo/lineTo pair per command in the
\* order the commands arrived, then one stroke.
C23_LineGroupOnePath ==
    \A g \in 1..Len(calls) :
        (IsGroup(calls[g]) /\ calls[g].val = "line") =>
            LET p == PathSteps(calls, g)
                k == ReplaysIn(calls, g)
            IN  /\ k >= 1
                /\ Len(p) = 2 * k + 3
                /\ p[1].op = "applyLineStyle" /\ p[1].style = calls[g].style
                /\ p[2].op = "beginPath"
                /\ p[2 * k + 3].op = "stroke"
                /\ \A i \in 1..k :
                      /\ p[2 * i + 1].op = "moveTo"
                      /\ p[2 * i + 2].op = "lineTo"
                      /\ p[2 * i + 2].id = p[2 * i + 1].id
                      /\ i < k => p[2 * i + 1].id < p[2 * i + 3].id

\* a line group of two commands was executed
C23_Witness ==
    \E g \in 1..Len(calls) :
        /\ IsGroup(calls[g])
        /\ calls[g].val = "line"
        /\ ReplaysIn(calls, g) = 2
        /\ Len(PathSteps(calls, g)) = 7

\* C24: with maxBatchSize >= 1, the buffer holds fewer than maxBatchSize
\* commands when an add call has returned; the add that brings the buffer to
\* maxBatchSize commands executes every one of them and empties the buffer.
C24_BufferBelowMax ==
    [][ (IsAdd /\ maxBatchSize >= 1) =>
          /\ Len(batchCommands') < maxBatchSize
          /\ (batchingEnabled /\ Len(Pending) >= maxBatchSize) =>
                /\ batchCommands' = <<>>
                /\ \A i \in 1..Len(Pending) :
                      executed'[Pending[i].data] = executed[Pending[i].data] + 1
      ]_vars

\* the second add of a batch of size two has executed both commands
C24_Witness ==
    /\ lastOp.op = "add"
    /\ maxBatchSize = 2
    /\ batchingEnabled
    /\ batchCommands = <<>>
    /\ Len(SelectSeq(calls, IsReplay)) = 2

---------------------------------------------------------------------------
(* C25, C26: the StyleManager's counter and the absent fields of a style *)

\* C25: a StyleManager call raises the style-change counter by the number of
\* writes its setters make to the context (a setter that writes counts 1, one
\* that does not counts 0), resetStyleChangeCount puts it at 0, and saveState,
\* restoreState and resetCache leave it as it is: the counter is the number of
\* setter writes since it was last reset.
C25_CounterCountsWrites ==
    [][ /\ lastOp'.op = "resetStyleChangeCount" => styleChangeCount' = 0
        /\ lastOp'.op # "resetStyleChangeCount" =>
              styleChangeCount' = styleChangeCount + Len(SelectSeq(calls', IsWrite))
        /\ lastOp'.op \in {"saveState", "restoreState", "resetCache"} =>
              styleChangeCount' = styleChangeCount
        /\ \A i \in 1..Len(calls') :
              calls'[i].op \in Setters =>
                  \/ WroteAt(calls', i + 1, SetterAttribute(calls'[i].op))
                  \/ i = Len(calls')
                  \/ ~IsWrite(calls'[i + 1])
      ]_vars

\* with caching on, the counter was reset, one opacity was written, and then a
\* line style already in the cache ran its two setters without a write: the
\* counter stands at 1
C25_Witness ==
    /\ enableCaching
    /\ lastOp.op = "applyLineStyle"
    /\ styleChangeCount = 1
    /\ Len(SelectSeq(calls, IsWrite)) = 0
    /\ Cardinality({ i \in 1..Len(calls) : calls[i].op \in Setters }) = 2
    /\ ctx.globalAlpha = "0.5"

\* the attribute is the same in the context and in the cache after the step
Untouched(attr) == ctx'[attr] = ctx[attr] /\ currentStyle'[attr] = currentStyle[attr]

\* what applyShapeStyle leaves alone whatever the style: the attributes of text,
\* blending and opacity, and, when the style has no fill colour, no stroke
\* colour or no stroke thickness, the fill paint, the stroke paint with the
\* line width and the dash pattern, or the line width
AbsentFieldsUntouched(style) ==
    /\ \A attr \in {"font", "textAlign", "textBaseline", "globalAlpha",
                    "globalCompositeOperation"} : Untouched(attr)
    /\ ~Truthy(Prop(style, "fillColor")) => Untouched("fillStyle")
    /\ ~Truthy(Prop(style, "strokeColor")) =>
          /\ Untouched("strokeStyle")
          /\ Untouched("lineWidth")
          /\ ctx'.lineDash = ctx.lineDash
    /\ ~Truthy(Prop(style, "strokeThickness")) => Untouched("lineWidth")

\* C26 as the specification states it: applyShapeStyle leaves untouched every
\* attribute and cache entry whose field is absent from the style, the dash
\* pattern of a style without dashPattern included.
C26_AbsentUntouched ==
    [][ lastOp'.op = "applyShapeStyle" =>
          /\ AbsentFieldsUntouched(lastOp'.style)
          /\ ~Truthy(Prop(lastOp'.style, "dashPattern")) => ctx'.lineDash = ctx.lineDash
      ]_vars

\* C26, amended: applyShapeStyle leaves the fill paint untouched when the style
\* has no fill colour, the stroke paint, line width and dash pattern untouched
\* when it has no stroke colour (whatever thickness or dash pattern it
\* carries), and the line width untouched when it has no stroke thickness; but
\* a style with a stroke colour and no dash pattern clears the dash pattern of
\* the context.
C26_AbsentUntouchedButDash ==
    [][ lastOp'.op = "applyShapeStyle" =>
          /\ AbsentFieldsUntouched(lastOp'.style)
          /\ (Truthy(Prop(lastOp'.style, "strokeColor"))
                /\ ~Truthy(Prop(lastOp'.style, "dashPattern"))) => ctx'.lineDash = ""
      ]_vars

\* a shape style with a stroke colour and no dash pattern was applied to a
\* context left dashed by a line style: the dash pattern is gone, the fill
\* paint is as it was
C26_Witness ==
    /\ lastOp.op = "applyShapeStyle"
    /\ lastOp.style = StyleStroke
    /\ ctx.lineDash = ""
    /\ ctx.strokeStyle = "#0000ff"
    /\ \E i \in 1..Len(calls) : calls[i].op = "setLineDash"
    /\ ctxStack # <<>>
    /\ ctxStack[1].lineDash = "5,5"

---------------------------------------------------------------------------
(* C27..C29: the renderer, its BatchManager and its StyleManager *)

\* C27: in a renderer built with enableBatchRendering, a batchable draw call of
\* a frame is buffered, not drawn, and endFrame executes the buffer group by
\* group and leaves it empty: the batched-draw-call statistic it finalizes is
\* the number of groups it executed, and at least 1 when commands were pending.
C27_FrameBatches ==
    [][ enableBatchRendering =>
          /\ (lastOp'.op = "draw" /\ lastOp'.kind \in Kinds) =>
                /\ Len(batchCommands') = Len(batchCommands) + 1
                /\ Len(SelectSeq(calls', IsCallback)) = 0
          /\ (lastOp'.op = "endFrame" /\ lastOp'.returned) =>
                /\ batchCommands' = <<>>
                /\ canvasStats'.batchedDrawCalls = Len(SelectSeq(calls', IsGroup))
                /\ batchCommands # <<>> => canvasStats'.batchedDrawCalls >= 1
      ]_vars

\* ---- one line handed to a BatchManager while the camera and the ----
\* ---- canvas are being set                                        ----

\* the command addLine buffers: the world point, not a screen position;
\* issued remembers the coordinate state of the moment it was accepted
LineCommandAt(start, c) == [type |-> "line", data |-> start, style |-> NoStyle, issued |-> c]

\* the moveTo of a line: where it went, for which point, accepted in which state
MoveTo(command, startScreen) ==
    Call("moveTo", 0, NoStyle,
         [world |-> command.data, issued |-> command.issued, screen |-> startScreen])

LineCall(op, commands, issuedCalls) ==
    /\ lastOp' = Op(op, "line", 0, NoStyle, TRUE)
    /\ batchCommands' = commands
    /\ calls' = issuedCalls
    /\ UNCHANGED <<ctx, ctxStack, currentStyle, styleChangeCount, enableCaching,
                   maxBatchSize, batchingEnabled, batchedDrawCallCount,
                   transformStackDepth, canvasStats, enableBatchRendering,
                   coord, conversion, inFrame, frameSaveDepth, nextId, buffered, executed>>

\* addLine: drawn at once by drawLineImmediate when batching is disabled,
\* buffered otherwise (one line pending at a time)
AddLineAt ==
    \E start \in WorldPoints :
        IF ~batchingEnabled
        THEN \E startScreen \in worldToScreen(coord, start) :
                LineCall("addLine", batchCommands,
                         <<MoveTo(LineCommandAt(start, coord), startScreen)>>)
        ELSE /\ batchCommands = <<>>
             /\ LineCall("addLine", <<LineCommandAt(start, coord)>>, <<>>)

\* flushBatch of the pending line: executeLineGroup converts its start point now
FlushLines ==
    /\ Len(batchCommands) > 0
    /\ \E startScreen \in worldToScreen(coord, batchCommands[1].data) :
          LineCall("flushBatch", <<>>, <<MoveTo(batchCommands[1], startScreen)>>)

NextRetro ==
    \/ SetCanvasSize
    \/ SetCameraPosition
    \/ SetCameraZoom
    \/ SetPixelsPerUnit
    \/ BeginBatch
    \/ AddLineAt
    \/ FlushLines

SpecRetro == InitCoord /\ [][NextRetro]_vars

\* C28: a line is put on the canvas where the coordinate state of the moment
\* it was accepted places its start point, drawn at once or buffered and
\* flushed after setCameraPosition, setCameraZoom, setPixelsPerUnit or
\* setCanvasSize.
C28_NotRetroactive ==
    \A i \in DOMAIN calls :
        calls[i].op = "moveTo" =>
            calls[i].val.screen \in worldToScreen(calls[i].val.issued, calls[i].val.world)

\* the fill, stroke and fillText calls of a list of calls
PaintOps == {"fill", "stroke", "fillText"}

\* the value the context holds for attr when entry k of the calls cs is
\* issued, the operation having begun with the context before: the value of the
\* last write that precedes k (a setter logs its value, then writes), else the
\* value the operation began with
ActualAt(cs, before, attr, k) ==
    LET writes == { i \in 1..(k - 1) : cs[i].op = "write" /\ cs[i].val = attr } IN
    IF writes = {} THEN before[attr]
    ELSE cs[(CHOOSE i \in writes : \A j \in writes : j <= i) - 1].val

\* what a style asks of the context for a paint call of a shape of a kind
RequestedAt(kind, style, op) ==
    CASE kind = "line" ->
            { <<"strokeStyle", toHex(Prop(style, "color"))>> } \cup
            (IF Truthy(Prop(style, "thickness"))
             THEN { <<"lineWidth", Prop(style, "thickness")>> } ELSE {})
      [] kind = "text" ->
            { <<"fillStyle", toHex(Prop(style, "color"))>>, <<"font", FontString(style)>> }
      [] OTHER ->
            IF op = "fill"
            THEN { <<"fillStyle", toHex(Prop(style, "fillColor"))>> }
            ELSE { <<"strokeStyle", toHex(Prop(style, "strokeColor"))>> } \cup
                 (IF Truthy(Prop(style, "strokeThickness"))
                  THEN { <<"lineWidth", Prop(style, "strokeThickness")>> } ELSE {})

\* C29: with style caching enabled, every fill, stroke and fillText of a draw
\* call is issued while the context holds the fill paint, stroke paint, line
\* width and font that the style of the call asks for.
C29_PaintsAsRequested ==
    [][ (enableCaching /\ lastOp'.op = "draw") =>
          \A k \in DOMAIN calls' :
              calls'[k].op \in PaintOps =>
                  \A req \in RequestedAt(lastOp'.kind, lastOp'.style, calls'[k].op) :
                      ActualAt(calls', ctx, req[1], k) = req[2]
      ]_vars

---------------------------------------------------------------------------
(* C30: the buffer of an idle BatchManager *)

\* C30: between calls, a BatchManager whose batching is disabled has an empty
\* buffer: commands are pending only while it is batching.
C30_IdleBufferEmpty == ~batchingEnabled => batchCommands = <<>>

\* endBatch has just executed pending commands and left the manager idle
C30_Witness ==
    /\ lastOp.op = "endBatch"
    /\ ~batchingEnabled
    /\ batchCommands = <<>>
    /\ Len(SelectSeq(calls, IsGroup)) > 0

=============================================================================
